---------------------------- MODULE Spec2Model ----------------------------
(***************************************************************************)
(* A model of the Fibers execution engine of ts-fibers (src/src/index.ts). *)
(*                                                                         *)
(* JavaScript runs every synchronous stretch of code to completion, so     *)
(* each action below is one such stretch: a public method call up to its   *)
(* first `await`, or the continuation of one `await`.  A call of next()    *)
(* is a frame of `calls` whose pc names the await it is suspended at.      *)
(* Promises created by the task factory are the items 1..NumItems; a       *)
(* promise settles (Settle) and, two microtask ticks later, its            *)
(* .catch().finally() callback adds it to the finished pool (Finalize).    *)
(***************************************************************************)
EXTENDS Integers, Sequences, FiniteSets, TLC

\* Longest work source (number of items it yields) of a foreground-only run.
NumItems == 4
\* Longest work source of a run that uses every public operation.
ShortSource == 2
\* Largest concurrency level a caller writes.
MaxConcurrency == 2
\* Largest concurrency level, and longest source, of the runs with a wide pool.
WideConcurrency == 3
WideSource == 3
\* How many values that are not above 0 a caller tries as concurrency level.
InvalidWrites == 2
\* How many calls of Fibers.delay a run makes, and how many AbortControllers
\* it passes to them.
NumDelays == 2
NumTokens == 2

Items == 1..NumItems
Levels == 1..MaxConcurrency
Handlers == {"none", "stop", "skip", "default"}
\* the invocations of next() that can be in progress together: the step of
\* the foreground caller, the step of the background job, and a second step
\* the foreground caller issues without awaiting the first
Callers == {"fg", "bg", "fg2"}
\* the values a caller passes as concurrency level, valid or not
WriteValues == (1 - InvalidWrites)..MaxConcurrency
DelayIds == 1..NumDelays
Tokens == 1..NumTokens

VARIABLES
    fibers,       \* the private fields of the Fibers object
    sourceLen,    \* number of items the work source yields
    generator,    \* _generator: index of the next item it yields; sourceLen+1 = finished
    hasDispose,   \* whether the runtime gives generators a Symbol.dispose method
    task,         \* per item: stage of the promise its factory returned
    rejected,     \* the promises that settled by rejection
    microtasks,   \* settled promises whose finally-callback has not run yet (FIFO)
    calls,        \* the invocation of next() each caller has in progress
    iterating,    \* a `for await` loop over the fibers is in progress
    thrown,       \* the error the latest operation raised synchronously
    returned,     \* what the latest call of start(), stop() or the iterator method returned
    delivered,    \* per item: how many steps returned its result
    started,      \* per item: how many times its factory was invoked
    settleCalls,  \* how many times _callbackResolve/_callbackReject were invoked
    handlerCalls, \* how many times the error handler was consulted (capped)
    peakConcurrency, \* largest concurrency level in effect so far
    settleOrder,  \* the units that have settled, in the order they settled
    queuedAtStop, \* the units in flight when stop() interrupted the running job
    awaiting,     \* a caller awaits the Lifecycle Handle that promiseStart gave it
    rejectThrows, \* whether a call of _callbackReject throws (the case of lines 283-285)
    delays,       \* per call of Fibers.delay: its promise, timer and abort listener
    aborted       \* per AbortController: signal.aborted

vars == <<fibers, sourceLen, generator, hasDispose, task, rejected, microtasks, calls,
          iterating, thrown, returned, delivered, started, settleCalls, handlerCalls,
          peakConcurrency, settleOrder, queuedAtStop, awaiting, rejectThrows,
          delays, aborted>>

\* a call of Fibers.delay that has not been made: token 0 is no controller
NoDelay == [promise |-> "uncalled", token |-> 0, timer |-> FALSE, listener |-> FALSE,
            error |-> "none", timersSet |-> 0, listenersAdded |-> 0,
            cancelledAtCall |-> FALSE]

IdleCall == [pc |-> "idle", activeTask |-> 0, winner |-> 0, raceSet |-> {}, result |-> "none"]

Min(S) == CHOOSE x \in S : \A y \in S : x <= y

Cap(n) == IF n < 2 THEN n + 1 ELSE n

\* The state one synchronous stretch of code works on.
World == [fibers |-> fibers, generator |-> generator, task |-> task, calls |-> calls,
          delivered |-> delivered, started |-> started, settleCalls |-> settleCalls,
          handlerCalls |-> handlerCalls, thrown |-> "none", returned |-> "none"]

Commit(w) ==
    /\ fibers' = w.fibers
    /\ generator' = w.generator
    /\ task' = w.task
    /\ calls' = w.calls
    /\ delivered' = w.delivered
    /\ started' = w.started
    /\ settleCalls' = w.settleCalls
    /\ handlerCalls' = w.handlerCalls
    /\ thrown' = w.thrown
    /\ returned' = w.returned

\* Fields the code initialises at lines 39-57 and in the constructor.
NewFibers(c, h) ==
    [ runningTaskPool |-> {},
      finishedTaskPool |-> <<>>,
      isCompleted |-> FALSE,
      isGeneratorConsuming |-> FALSE,
      allowBackgroundJobRunning |-> FALSE,
      activeBackgroundJob |-> FALSE,
      isFailed |-> FALSE,
      isResolvedOrRejected |-> FALSE,
      fibersPromise |-> "pending",
      b_concurrency |-> c,
      b_errorHandler |-> h ]

\* Fibers.for / Fibers.forEach over a source of n items, then setErrorHandler(h)
Construct(levels, lengths) ==
    /\ \E c \in levels, h \in Handlers : fibers = NewFibers(c, h) /\ peakConcurrency = c
    /\ sourceLen \in lengths
    /\ generator = 1
    /\ hasDispose \in BOOLEAN
    /\ task = [t \in Items |-> "unstarted"]
    /\ rejected = {}
    /\ microtasks = <<>>
    /\ calls = [f \in Callers |-> IdleCall]
    /\ iterating = FALSE
    /\ thrown = "none"
    /\ returned = "none"
    /\ settleOrder = <<>>
    /\ queuedAtStop = {}
    /\ awaiting = FALSE
    /\ delays = [d \in DelayIds |-> NoDelay]
    /\ aborted = [k \in Tokens |-> FALSE]
    /\ delivered = [t \in Items |-> 0]
    /\ started = [t \in Items |-> 0]
    /\ settleCalls = 0
    /\ handlerCalls = 0

\* The reject function the Promise constructor hands out (lines 66-71) does
\* not throw.
Init == Construct(Levels, 0..ShortSource) /\ rejectThrows = FALSE

InitSession == Construct(Levels, 0..NumItems) /\ rejectThrows = FALSE

InitWide == Construct(1..WideConcurrency, 0..WideSource) /\ rejectThrows = FALSE

\* Engines whose _callbackReject may throw when it is called: the case the
\* catch block of _raiseErrorAndCleanup provides for.
InitConflict == Construct(Levels, 0..ShortSource) /\ rejectThrows \in BOOLEAN

-----------------------------------------------------------------------------
(* The private methods, as functions of the world.                         *)

\* A promise settles once: resolve/reject on a settled promise change nothing.
SettlePromise(p, outcome) == IF p = "pending" THEN outcome ELSE p

\* _cleanup refusing to run on an engine that is completed already
cleanupOnce(w) ==
    IF w.fibers.isCompleted
    THEN [w EXCEPT !.thrown = "AlreadyCleanedUp"]
    ELSE [w EXCEPT !.fibers.isCompleted = TRUE,
                   !.fibers.isGeneratorConsuming = FALSE,
                   !.fibers.allowBackgroundJobRunning = FALSE,
                   !.fibers.activeBackgroundJob = FALSE,
                   !.generator = IF hasDispose THEN sourceLen + 1 ELSE @,
                   !.fibers.runningTaskPool = {},
                   !.fibers.finishedTaskPool = <<>>]

\* _cleanup
cleanup(w) ==
    [w EXCEPT !.fibers.isCompleted = TRUE,
              !.fibers.isGeneratorConsuming = FALSE,
              !.fibers.allowBackgroundJobRunning = FALSE,
              !.fibers.activeBackgroundJob = FALSE,
              !.generator = IF hasDispose THEN sourceLen + 1 ELSE @,
              !.fibers.runningTaskPool = {},
              !.fibers.finishedTaskPool = <<>>]

\* settleOnce without its _isResolvedOrRejected guard
settleUnguarded(w, outcome) ==
    [w EXCEPT !.fibers.isResolvedOrRejected = TRUE,
              !.fibers.fibersPromise = SettlePromise(@, outcome),
              !.settleCalls = Cap(@)]

\* _raiseErrorAndCleanup reaches its catch block (lines 283-285): the guard
\* lets it call _callbackReject, and the call throws
settleConflict(w) == rejectThrows /\ ~w.fibers.isResolvedOrRejected

\* the guarded call of _callbackResolve / _callbackReject; a call that
\* throws has set the guard and leaves the promise as it was
settleOnce(w, outcome) ==
    IF ~w.fibers.isResolvedOrRejected
    THEN IF outcome = "rejected" /\ rejectThrows
         THEN [w EXCEPT !.fibers.isResolvedOrRejected = TRUE,
                        !.settleCalls = Cap(@)]
         ELSE [w EXCEPT !.fibers.isResolvedOrRejected = TRUE,
                        !.fibers.fibersPromise = SettlePromise(@, outcome),
                        !.settleCalls = Cap(@)]
    ELSE w

\* _resolveIfNotFailedAndCleanup without its finally block
resolveWithoutCleanup(w) == settleOnce(w, "resolved")

\* _resolveIfNotFailedAndCleanup
resolveIfNotFailedAndCleanup(w) == cleanup(settleOnce(w, "resolved"))

\* _raiseErrorAndCleanup
raiseErrorAndCleanup(w) ==
    cleanup(settleOnce([w EXCEPT !.fibers.isFailed = TRUE], "rejected"))


Remove(seq, t) == SelectSeq(seq, LAMBDA x : x # t)

InSeq(seq, t) == \E i \in 1..Len(seq) : seq[i] = t

\* refill with the loop condition `size <= taskSize`
RECURSIVE refillOneTooMany(_, _)
refillOneTooMany(w, f) ==
    IF /\ Cardinality(w.fibers.runningTaskPool) <= w.fibers.b_concurrency
       /\ w.generator <= sourceLen
    THEN LET t == w.generator
         IN  refillOneTooMany([w EXCEPT !.generator = @ + 1,
                                        !.task[t] = "pending",
                                        !.started[t] = Cap(@),
                                        !.calls[f].activeTask = t,
                                        !.fibers.runningTaskPool = @ \cup {t}], f)
    ELSE w

\* next(), lines 173-189: fill the running pool up to the concurrency level.
\* Every unit created becomes this invocation's activeTask in turn.
RECURSIVE refill(_, _)
refill(w, f) ==
    IF /\ Cardinality(w.fibers.runningTaskPool) < w.fibers.b_concurrency
       /\ w.generator <= sourceLen
    THEN LET t == w.generator
         IN  refill([w EXCEPT !.generator = @ + 1,
                              !.task[t] = "pending",
                              !.started[t] = Cap(@),
                              !.calls[f].activeTask = t,
                              !.fibers.runningTaskPool = @ \cup {t}], f)
    ELSE w

\* next(), line 196: Promise.race over the running pool.  Among promises that
\* are already settled the first in insertion order (the lowest item: units
\* enter the pool in source order) wins; otherwise the first to settle does.
race(w, f) ==
    LET pool == w.fibers.runningTaskPool
        done == {t \in pool : w.task[t] # "pending"}
    IN  [w EXCEPT !.calls[f].pc = "race",
                  !.calls[f].winner = IF done # {} THEN Min(done) ELSE 0,
                  !.calls[f].raceSet = IF done # {} THEN {} ELSE pool]

\* the finally block without `finishedPool.delete(activeTask)`
finallyBlockKeepsFinished(w, f, loopFinished) ==
    LET a  == w.calls[f].activeTask
        w1 == IF a # 0 THEN [w EXCEPT !.fibers.runningTaskPool = @ \ {a}] ELSE w
    IN  IF loopFinished THEN resolveIfNotFailedAndCleanup(w1) ELSE w1

\* next(), lines 229-238: the finally block.
finallyBlock(w, f, loopFinished) ==
    LET a  == w.calls[f].activeTask
        w1 == IF a # 0
              THEN [w EXCEPT !.fibers.runningTaskPool = @ \ {a},
                             !.fibers.finishedTaskPool = Remove(@, a)]
              ELSE w
    IN  IF loopFinished THEN resolveIfNotFailedAndCleanup(w1) ELSE w1

\* the promise next() returned settles with `result`
finish(w, f, result) ==
    [w EXCEPT !.calls[f] = [IdleCall EXCEPT !.pc = "ret", !.result = result]]

\* next(), lines 235-236: with loopFinished set, the finally block settles
\* the Lifecycle Handle and tears down in the same stretch, then the
\* invocation is suspended at `await this._resolveIfNotFailedAndCleanup()`
finishLoop(w, f) ==
    [finallyBlock(w, f, TRUE) EXCEPT !.calls[f] = [IdleCall EXCEPT !.pc = "final"]]

\* next() returning done from an empty pool without settling the Lifecycle
\* Handle and without teardown
nextReturnsDoneOnly(w, f) ==
    LET w1 == refill([w EXCEPT !.calls[f] = IdleCall], f)
    IN  IF w1.fibers.runningTaskPool # {}
        THEN race(w1, f)
        ELSE finish(finallyBlock(w1, f, FALSE), f, "done")

\* next(), lines 163-215 up to the first await, or up to the await of the
\* finally block when the pool is empty
next(w, f) ==
    LET w1 == refill([w EXCEPT !.calls[f] = IdleCall], f)
    IN  IF w1.fibers.runningTaskPool # {}
        THEN race(w1, f)
        ELSE finishLoop(w1, f)

\* the catch block with `loopFinished = true` missing from case 'stop'
catchBlockStopContinues(w, f) ==
    LET h  == w.fibers.b_errorHandler
        w1 == IF h # "none" THEN [w EXCEPT !.handlerCalls = Cap(@)] ELSE w
    IN  CASE h \in {"stop", "skip"} -> next(finallyBlock(w1, f, FALSE), f)
          [] OTHER -> finish(finallyBlock(raiseErrorAndCleanup(w1), f, FALSE), f, "throw")

\* the catch block handling every failure as 'skip'
catchBlockAlwaysSkips(w, f) ==
    LET h  == w.fibers.b_errorHandler
        w1 == IF h # "none" THEN [w EXCEPT !.handlerCalls = Cap(@)] ELSE w
    IN  CASE h = "stop" -> finishLoop(w1, f)
          [] OTHER      -> next(finallyBlock(w1, f, FALSE), f)

\* next(), lines 217-228 and 240-245: the catch block, then the finally block,
\* then either the result or the recursive call of next().
catchBlock(w, f) ==
    LET h  == w.fibers.b_errorHandler
        w1 == IF h # "none" THEN [w EXCEPT !.handlerCalls = Cap(@)] ELSE w
    IN  CASE h = "stop" -> finishLoop(w1, f)
          [] h = "skip" -> next(finallyBlock(w1, f, FALSE), f)
          [] OTHER      -> finish(finallyBlock(raiseErrorAndCleanup(w1), f, FALSE), f, "throw")

\* takeFinished taking the unit that entered the finished pool last
takeNewest(w, f) ==
    IF w.fibers.finishedTaskPool = <<>>
    THEN [w EXCEPT !.calls[f].pc = "spin"]
    ELSE [w EXCEPT !.calls[f].pc = "claim",
                   !.calls[f].activeTask =
                       w.fibers.finishedTaskPool[Len(w.fibers.finishedTaskPool)]]

\* next(), lines 199-210: leave the spin-yield once the finished pool is
\* non-empty and take its first unit.
takeFinished(w, f) ==
    IF w.fibers.finishedTaskPool = <<>>
    THEN [w EXCEPT !.calls[f].pc = "spin"]
    ELSE [w EXCEPT !.calls[f].pc = "claim",
                   !.calls[f].activeTask = Head(w.fibers.finishedTaskPool)]

\* continuation of `await Promise.race(runningPool)`
raceResume(w, f) ==
    IF w.calls[f].winner \in rejected THEN catchBlock(w, f) ELSE takeFinished(w, f)

\* continuation of `await activeTask` at line 210
claimResume(w, f) ==
    LET a == w.calls[f].activeTask
    IN  IF a \in rejected
        THEN catchBlock(w, f)
        ELSE finish(finallyBlock([w EXCEPT !.delivered[a] = Cap(@)], f, FALSE), f, "value")

\* _runInBackground without `this._activeBackgroundJob = undefined` in its
\* finally block
runInBackgroundKeepsJob(w) ==
    IF /\ w.fibers.allowBackgroundJobRunning
       /\ ~w.fibers.isFailed
       /\ ~w.fibers.isCompleted
    THEN next(w, "bg")
    ELSE [w EXCEPT !.fibers.allowBackgroundJobRunning = FALSE,
                   !.calls["bg"] = IdleCall]

\* _runInBackground, lines 116-127: one evaluation of the loop condition
runInBackground(w) ==
    IF /\ w.fibers.allowBackgroundJobRunning
       /\ ~w.fibers.isFailed
       /\ ~w.fibers.isCompleted
    THEN next(w, "bg")
    ELSE [w EXCEPT !.fibers.allowBackgroundJobRunning = FALSE,
                   !.fibers.activeBackgroundJob = FALSE,
                   !.calls["bg"] = IdleCall]

\* start() without `this._allowBackgroundJobRunning = true`
startKeepsFlag(w) ==
    IF w.fibers.isGeneratorConsuming THEN [w EXCEPT !.thrown = "CannotStart"]
    ELSE IF w.fibers.isCompleted \/ w.fibers.isFailed THEN [w EXCEPT !.returned = "resolved"]
    ELSE IF w.fibers.activeBackgroundJob THEN [w EXCEPT !.returned = "activeJob"]
    ELSE [runInBackground(w) EXCEPT !.fibers.activeBackgroundJob = TRUE, !.returned = "newJob"]

\* start() without the check of _activeBackgroundJob
startAgain(w) ==
    IF w.fibers.isGeneratorConsuming THEN [w EXCEPT !.thrown = "CannotStart"]
    ELSE IF w.fibers.isCompleted \/ w.fibers.isFailed THEN [w EXCEPT !.returned = "resolved"]
    ELSE LET w1 == runInBackground([w EXCEPT !.fibers.allowBackgroundJobRunning = TRUE])
         IN  [w1 EXCEPT !.fibers.activeBackgroundJob = TRUE, !.returned = "newJob"]

\* start() without the check of _isGeneratorConsuming
startUnchecked(w) ==
    IF w.fibers.isCompleted \/ w.fibers.isFailed THEN [w EXCEPT !.returned = "resolved"]
    ELSE IF w.fibers.activeBackgroundJob THEN [w EXCEPT !.returned = "activeJob"]
    ELSE LET w1 == runInBackground([w EXCEPT !.fibers.allowBackgroundJobRunning = TRUE])
         IN  [w1 EXCEPT !.fibers.activeBackgroundJob = TRUE, !.returned = "newJob"]

\* start() raising the flag before it checks _isGeneratorConsuming
startFlagFirst(w) ==
    IF w.fibers.isGeneratorConsuming
    THEN [w EXCEPT !.fibers.allowBackgroundJobRunning = TRUE, !.thrown = "CannotStart"]
    ELSE startUnchecked(w)

\* start()
start(w) ==
    IF w.fibers.isGeneratorConsuming THEN [w EXCEPT !.thrown = "CannotStart"]
    ELSE IF w.fibers.isCompleted \/ w.fibers.isFailed THEN [w EXCEPT !.returned = "resolved"]
    ELSE IF w.fibers.activeBackgroundJob THEN [w EXCEPT !.returned = "activeJob"]
    ELSE LET w1 == runInBackground([w EXCEPT !.fibers.allowBackgroundJobRunning = TRUE])
         IN  [w1 EXCEPT !.fibers.activeBackgroundJob = TRUE, !.returned = "newJob"]

\* stop() that also resolves the Lifecycle Handle
stopAndResolve(w) ==
    settleOnce([w EXCEPT !.fibers.allowBackgroundJobRunning = FALSE,
                         !.returned = IF w.fibers.activeBackgroundJob
                                      THEN "activeJob" ELSE "resolved"],
               "resolved")

\* stop()
stop(w) ==
    [w EXCEPT !.fibers.allowBackgroundJobRunning = FALSE,
              !.returned = IF w.fibers.activeBackgroundJob THEN "activeJob" ELSE "resolved"]

\* [Symbol.asyncIterator]() setting the flag before it checks for a job
asyncIteratorFlagFirst(w) ==
    IF w.fibers.activeBackgroundJob
    THEN [w EXCEPT !.fibers.isGeneratorConsuming = TRUE, !.thrown = "CannotIterate"]
    ELSE [w EXCEPT !.fibers.isGeneratorConsuming = TRUE, !.returned = "this"]

\* [Symbol.asyncIterator]() re-arming a completed engine
asyncIteratorReopens(w) ==
    IF w.fibers.activeBackgroundJob THEN [w EXCEPT !.thrown = "CannotIterate"]
    ELSE [w EXCEPT !.fibers.isGeneratorConsuming = TRUE,
                   !.fibers.isCompleted = FALSE,
                   !.returned = "this"]

\* [Symbol.asyncIterator]()
asyncIterator(w) ==
    IF w.fibers.activeBackgroundJob THEN [w EXCEPT !.thrown = "CannotIterate"]
    ELSE [w EXCEPT !.fibers.isGeneratorConsuming = TRUE, !.returned = "this"]

\* throw(e): it awaits _raiseErrorAndCleanup(e), whose promise rejects with
\* AggregateError([other, e]) when the settlement threw `other`, and otherwise
\* rethrows e
throw(w) ==
    [raiseErrorAndCleanup(w) EXCEPT
        !.returned = IF settleConflict(w) THEN "rejects(AggregateError)" ELSE "rejects(e)"]

\* message of the FiberError the setter raises (line 100)
ConcurrencyMessage(v) == "Concurrency level must be greater than 0: " \o ToString(v)

\* the setter storing the value before it validates it
setConcurrencyStoreFirst(w, v) ==
    IF v <= 0 THEN [w EXCEPT !.fibers.b_concurrency = v, !.thrown = ConcurrencyMessage(v)]
    ELSE [w EXCEPT !.fibers.b_concurrency = v]

\* the setter filling the Running Pool up to the new level at once
setConcurrencyRefills(w, v) ==
    IF v <= 0 THEN [w EXCEPT !.thrown = ConcurrencyMessage(v)]
    ELSE [refill([w EXCEPT !.fibers.b_concurrency = v], "fg") EXCEPT
              !.calls = w.calls]

\* set concurrency
setConcurrency(w, v) ==
    IF v <= 0 THEN [w EXCEPT !.thrown = ConcurrencyMessage(v)]
    ELSE [w EXCEPT !.fibers.b_concurrency = v]

\* get concurrency
concurrency(w) == w.fibers.b_concurrency

\* get promise
promise(w) == [w EXCEPT !.returned = "fibersPromise"]

\* get promiseStart returning what start() returned
promiseStartReturnsJob(w) == start(w)

\* get promiseStart; when start() raises, the getter raises and returns nothing
promiseStart(w) ==
    LET w1 == start(w)
    IN  IF w1.thrown # "none" THEN w1 ELSE promise(w1)

-----------------------------------------------------------------------------
(* Fibers.delay, as functions of the delay calls and the abort signals.    *)

\* _createAbortError: a DOMException where the runtime has one, else an Error
createAbortError(hasDOMException) ==
    IF hasDOMException
    THEN [class |-> "DOMException", name |-> "AbortError", message |-> "Aborted"]
    ELSE [class |-> "Error", name |-> "AbortError", message |-> "Aborted"]

\* delay() scheduling the timer before it looks at the signal
delayTimerFirst(ds, sig, d, k, dom) ==
    IF k # 0 /\ sig[k]
    THEN [ds EXCEPT ![d] = [NoDelay EXCEPT !.promise = "rejected",
                                           !.token = k,
                                           !.timer = TRUE,
                                           !.timersSet = 1,
                                           !.error = createAbortError(dom),
                                           !.cancelledAtCall = TRUE]]
    ELSE [ds EXCEPT ![d] = [NoDelay EXCEPT !.promise = "pending",
                                           !.token = k,
                                           !.timer = TRUE,
                                           !.timersSet = 1,
                                           !.listener = (k # 0),
                                           !.listenersAdded = IF k # 0 THEN 1 ELSE 0]]

\* delay(milliseconds, ac), lines 377-399: the executor of the promise.  With
\* an aborted signal it rejects and returns; otherwise it schedules the
\* timer and, when a controller was passed, registers onAbort.
delay(ds, sig, d, k, dom) ==
    IF k # 0 /\ sig[k]
    THEN [ds EXCEPT ![d] = [NoDelay EXCEPT !.promise = "rejected",
                                           !.token = k,
                                           !.error = createAbortError(dom),
                                           !.cancelledAtCall = TRUE]]
    ELSE [ds EXCEPT ![d] = [NoDelay EXCEPT !.promise = "pending",
                                           !.token = k,
                                           !.timer = TRUE,
                                           !.timersSet = 1,
                                           !.listener = (k # 0),
                                           !.listenersAdded = IF k # 0 THEN 1 ELSE 0]]

\* the closure `cleanup` of delay, lines 393-396
delayCleanup(r) == [r EXCEPT !.timer = FALSE, !.listener = FALSE]

\* the timer callback, lines 383-386
onTimeout(r) == [delayCleanup(r) EXCEPT !.promise = SettlePromise(@, "resolved")]

\* onAbort rejecting without a call of `cleanup`
onAbortKeepsTimer(r, dom) ==
    [r EXCEPT !.promise = SettlePromise(@, "rejected"),
              !.error = IF r.promise = "pending" THEN createAbortError(dom) ELSE @]

\* the closure `onAbort`, lines 388-391
onAbort(r, dom) ==
    [delayCleanup(r) EXCEPT !.promise = SettlePromise(@, "rejected"),
                            !.error = IF r.promise = "pending"
                                      THEN createAbortError(dom) ELSE @]

\* ac.abort(): the first call sets signal.aborted and runs the listeners
\* registered on the signal
abort(ds, sig, k, dom) ==
    IF sig[k] THEN ds
    ELSE [d \in DelayIds |->
             IF ds[d].listener /\ ds[d].token = k THEN onAbort(ds[d], dom) ELSE ds[d]]

-----------------------------------------------------------------------------
(* Actions.                                                                *)

Env == <<sourceLen, hasDispose, rejected, microtasks, settleOrder, awaiting,
         rejectThrows, delays, aborted>>

\* a caller writes the concurrency level
SetConcurrency ==
    /\ \E v \in Levels :
          /\ Commit(setConcurrency(World, v))
          /\ peakConcurrency' = IF v > peakConcurrency THEN v ELSE peakConcurrency
    /\ UNCHANGED <<Env, iterating, queuedAtStop>>

\* a caller writes any value, valid or not, to the concurrency level of an
\* engine that exists
WriteConcurrency(v) ==
    /\ peakConcurrency > 0
    /\ Commit(setConcurrency(World, v))
    /\ peakConcurrency' = IF v > peakConcurrency THEN v ELSE peakConcurrency
    /\ UNCHANGED <<Env, iterating, queuedAtStop>>

Start ==
    /\ Commit(start(World))
    /\ UNCHANGED <<Env, iterating, peakConcurrency, queuedAtStop>>

\* stop(); the first stop() of a running job finds the units of queuedAtStop
\* in flight
Stop ==
    /\ Commit(stop(World))
    /\ queuedAtStop' =
          IF /\ fibers.activeBackgroundJob
             /\ fibers.allowBackgroundJobRunning
             /\ ~fibers.isCompleted
          THEN {t \in fibers.runningTaskPool : task[t] = "pending"}
          ELSE queuedAtStop
    /\ UNCHANGED <<Env, iterating, peakConcurrency>>

\* `for await (... of fibers)` begins: it calls [Symbol.asyncIterator]()
OpenSession ==
    /\ ~iterating
    /\ Commit(asyncIterator(World))
    /\ iterating' = ~fibers.activeBackgroundJob
    /\ UNCHANGED <<Env, peakConcurrency, queuedAtStop>>

\* the loop calls next()
SessionStep ==
    /\ iterating
    /\ calls["fg"].pc = "idle"
    /\ Commit(next(World, "fg"))
    /\ UNCHANGED <<Env, iterating, peakConcurrency, queuedAtStop>>

\* the loop receives the result of its step; done or an error ends the loop
SessionReceive ==
    /\ calls["fg"].pc = "ret"
    /\ Commit([World EXCEPT !.calls["fg"] = IdleCall])
    /\ iterating' = (iterating /\ calls["fg"].result = "value")
    /\ UNCHANGED <<Env, peakConcurrency, queuedAtStop>>

\* the loop body leaves the loop (break, return or an exception): the loop
\* calls return()
SessionBreak ==
    /\ iterating
    /\ calls["fg"].pc = "idle"
    /\ Commit(resolveIfNotFailedAndCleanup(World))
    /\ iterating' = FALSE
    /\ UNCHANGED <<Env, peakConcurrency, queuedAtStop>>

\* return(value) called directly
Return ==
    /\ Commit(resolveIfNotFailedAndCleanup(World))
    /\ UNCHANGED <<Env, iterating, peakConcurrency, queuedAtStop>>

\* throw(e) called directly
Throw ==
    /\ Commit(throw(World))
    /\ UNCHANGED <<Env, iterating, peakConcurrency, queuedAtStop>>

\* [Symbol.asyncDispose]()
AsyncDispose ==
    /\ Commit(cleanup(World))
    /\ UNCHANGED <<Env, iterating, peakConcurrency, queuedAtStop>>

\* the background loop resumes after `await this.next()`
BackgroundResume ==
    /\ calls["bg"].pc = "ret"
    /\ IF calls["bg"].result = "value"
       THEN Commit(runInBackground(World))
       ELSE Commit([World EXCEPT !.fibers.allowBackgroundJobRunning = FALSE,
                                 !.fibers.activeBackgroundJob = FALSE,
                                 !.calls["bg"] = IdleCall])
    /\ queuedAtStop' = IF calls'["bg"].pc = "idle" THEN {} ELSE queuedAtStop
    /\ UNCHANGED <<Env, iterating, peakConcurrency>>

\* the promise of unit t settles; it decides every race that is still open
\* and that it takes part in
SettleUnit(t, fails) ==
    /\ task[t] = "pending"
    /\ rejected' = IF fails THEN rejected \cup {t} ELSE rejected
    /\ microtasks' = Append(microtasks, t)
    /\ settleOrder' = Append(settleOrder, t)
    /\ Commit([World EXCEPT
           !.task[t] = "settled",
           !.calls = [f \in Callers |->
                        IF @[f].pc = "race" /\ @[f].winner = 0 /\ t \in @[f].raceSet
                        THEN [@[f] EXCEPT !.winner = t, !.raceSet = {}]
                        ELSE @[f]]])
    /\ UNCHANGED <<sourceLen, hasDispose, iterating, peakConcurrency, queuedAtStop,
                   awaiting, rejectThrows, delays, aborted>>

\* a started unit settles, by fulfilment or by rejection
Settle == \E t \in Items, fails \in BOOLEAN : SettleUnit(t, fails)

\* a started unit settles by fulfilment
SettleFulfilled == \E t \in Items : SettleUnit(t, FALSE)

\* the .catch().finally() callback of a settled unit runs (line 188)
Finalize ==
    /\ microtasks # <<>>
    /\ LET t == Head(microtasks)
       IN  Commit([World EXCEPT
               !.task[t] = "finalized",
               !.fibers.finishedTaskPool = IF InSeq(@, t) THEN @ ELSE Append(@, t)])
    /\ microtasks' = Tail(microtasks)
    /\ UNCHANGED <<sourceLen, hasDispose, rejected, iterating, peakConcurrency,
                   settleOrder, queuedAtStop, awaiting, rejectThrows, delays, aborted>>

\* `await Promise.race(runningPool)` resumes; the finally-callback of the
\* promise that decided the race was queued before the race's own reaction
RaceResume ==
    \E f \in Callers :
        /\ calls[f].pc = "race"
        /\ calls[f].winner # 0
        /\ task[calls[f].winner] = "finalized"
        /\ Commit(raceResume(World, f))
        /\ UNCHANGED <<Env, iterating, peakConcurrency, queuedAtStop>>

\* one turn of the spin-yield finds the finished pool non-empty
SpinResume ==
    \E f \in Callers :
        /\ calls[f].pc = "spin"
        /\ fibers.finishedTaskPool # <<>>
        /\ Commit(takeFinished(World, f))
        /\ UNCHANGED <<Env, iterating, peakConcurrency, queuedAtStop>>

\* `await this._resolveIfNotFailedAndCleanup()` resumes (line 236) and
\* next() returns done (lines 240-242)
FinallyResume ==
    \E f \in Callers :
        /\ calls[f].pc = "final"
        /\ Commit(finish(World, f, "done"))
        /\ UNCHANGED <<Env, iterating, peakConcurrency, queuedAtStop>>

\* `await activeTask` resumes
ClaimResume ==
    \E f \in Callers :
        /\ calls[f].pc = "claim"
        /\ Commit(claimResume(World, f))
        /\ UNCHANGED <<Env, iterating, peakConcurrency, queuedAtStop>>

\* a caller reads `promise`
ReadPromise ==
    /\ Commit(promise(World))
    /\ UNCHANGED <<Env, iterating, peakConcurrency, queuedAtStop>>

\* a caller reads `promiseStart` and, when the getter returns, awaits the
\* handle
PromiseStart ==
    /\ Commit(promiseStart(World))
    /\ awaiting' = (awaiting \/ thrown' = "none")
    /\ UNCHANGED <<sourceLen, hasDispose, rejected, microtasks, settleOrder,
                   iterating, peakConcurrency, queuedAtStop, rejectThrows, delays,
                   aborted>>

\* the variables of the engine, which Fibers.delay does not touch
engine == <<fibers, sourceLen, generator, hasDispose, task, rejected, microtasks, calls,
            iterating, thrown, returned, delivered, started, settleCalls, handlerCalls,
            peakConcurrency, settleOrder, queuedAtStop, awaiting, rejectThrows>>

\* a caller calls Fibers.delay, without a controller (k = 0) or with one
Delay ==
    \E d \in DelayIds, k \in 0..NumTokens, dom \in BOOLEAN :
        /\ delays[d].promise = "uncalled"
        /\ \A e \in DelayIds : e < d => delays[e].promise # "uncalled"
        /\ delays' = delay(delays, aborted, d, k, dom)
        /\ UNCHANGED <<engine, aborted>>

\* a caller calls abort() on a controller
Abort ==
    \E k \in Tokens, dom \in BOOLEAN :
        /\ delays' = abort(delays, aborted, k, dom)
        /\ aborted' = [aborted EXCEPT ![k] = TRUE]
        /\ UNCHANGED engine

\* the milliseconds of a scheduled timer have elapsed: its callback runs
TimerFires ==
    \E d \in DelayIds :
        /\ delays[d].timer
        /\ delays' = [delays EXCEPT ![d] = onTimeout(@)]
        /\ UNCHANGED <<engine, aborted>>

Next ==
    \/ SetConcurrency
    \/ Start \/ Stop
    \/ OpenSession \/ SessionStep \/ SessionReceive \/ SessionBreak
    \/ Return \/ Throw \/ AsyncDispose
    \/ RaceResume \/ SpinResume \/ ClaimResume \/ FinallyResume \/ BackgroundResume
    \/ Settle \/ Finalize

Spec == Init /\ [][Next]_vars

\* A run driven by one `for await` loop only.
NextSession ==
    \/ SetConcurrency
    \/ (~fibers.isCompleted /\ OpenSession)
    \/ SessionStep \/ SessionReceive
    \/ RaceResume \/ ClaimResume \/ FinallyResume
    \/ Settle \/ Finalize

SpecSession == InitSession /\ [][NextSession]_vars

\* The same, constructed with a concurrency level up to WideConcurrency.
SpecWide == InitWide /\ [][NextSession]_vars

\* A background run that is never stopped and whose units all fulfil, with a
\* caller that tries to open sessions.  The microtask queue runs every
\* continuation that is ready, and every started unit settles.
NextBackground ==
    \/ Start \/ OpenSession
    \/ RaceResume \/ ClaimResume \/ FinallyResume \/ BackgroundResume
    \/ SettleFulfilled \/ Finalize

Scheduler == RaceResume \/ ClaimResume \/ FinallyResume \/ BackgroundResume \/ SettleFulfilled \/ Finalize

SpecBackground == Init /\ [][NextBackground]_vars /\ WF_vars(Scheduler)

\* One run of the engine under the two consumption protocols: background
\* jobs that are started and stopped, and a foreground session opened while
\* the run is not completed; units fulfil or reject.
NextRun ==
    \/ SetConcurrency
    \/ Start \/ Stop \/ BackgroundResume
    \/ (~fibers.isCompleted /\ OpenSession) \/ SessionStep \/ SessionReceive
    \/ RaceResume \/ ClaimResume \/ FinallyResume
    \/ Settle \/ Finalize

SpecRun == Init /\ [][NextRun]_vars

\* Fibers.for / Fibers.forEach called with any concurrency level c: the
\* constructor passes c to the setter (line 60), on top of the field
\* initialiser b_concurrency = 1.  When the setter raises, no engine comes
\* into being: no level was ever in effect (peakConcurrency = 0).
InitConcurrency ==
    /\ \E c \in WriteValues, h \in Handlers :
          LET w == setConcurrency([fibers |-> NewFibers(1, "none"), thrown |-> "none"], c)
          IN  /\ thrown = w.thrown
              /\ peakConcurrency = IF w.thrown = "none" THEN concurrency(w) ELSE 0
              /\ fibers = IF w.thrown = "none"
                          THEN [w.fibers EXCEPT !.b_errorHandler = h]
                          ELSE w.fibers
    /\ sourceLen \in 0..ShortSource
    /\ generator = 1
    /\ hasDispose \in BOOLEAN
    /\ task = [t \in Items |-> "unstarted"]
    /\ rejected = {}
    /\ microtasks = <<>>
    /\ calls = [f \in Callers |-> IdleCall]
    /\ iterating = FALSE
    /\ returned = "none"
    /\ settleOrder = <<>>
    /\ queuedAtStop = {}
    /\ awaiting = FALSE
    /\ delays = [d \in DelayIds |-> NoDelay]
    /\ aborted = [k \in Tokens |-> FALSE]
    /\ rejectThrows = FALSE
    /\ delivered = [t \in Items |-> 0]
    /\ started = [t \in Items |-> 0]
    /\ settleCalls = 0
    /\ handlerCalls = 0

\* Engines constructed with any level, whose level is then written.
NextConcurrency == \E v \in WriteValues : WriteConcurrency(v)

SpecConcurrency == InitConcurrency /\ [][NextConcurrency]_vars

\* start() or promiseStart called while no background job is present: the
\* first start, or a restart by a caller that awaited the handle of stop()
Drive == ~fibers.activeBackgroundJob /\ Start

\* stop() called during a background run
StopRunning == fibers.activeBackgroundJob /\ fibers.allowBackgroundJobRunning /\ Stop

\* Background runs that are stopped at any point and started again only once
\* the stopped job has ended; units fulfil or reject.
NextStop ==
    \/ SetConcurrency
    \/ Drive \/ Stop
    \/ RaceResume \/ ClaimResume \/ FinallyResume \/ BackgroundResume
    \/ Settle \/ Finalize

SpecStop == Init /\ [][NextStop]_vars

\* Background runs over units that all fulfil, stopped at any point and
\* driven again once the stopped job has ended.
NextRestart ==
    \/ Drive \/ StopRunning
    \/ RaceResume \/ ClaimResume \/ FinallyResume \/ BackgroundResume
    \/ SettleFulfilled \/ Finalize

SpecRestart ==
    InitSession /\ [][NextRestart]_vars /\ WF_vars(Scheduler) /\ WF_vars(Drive)


\* Engines observed through `promise` and driven in the background through
\* `promiseStart` only, or by a foreground session; units fulfil or reject.
NextHandle ==
    \/ ReadPromise \/ PromiseStart
    \/ Stop \/ BackgroundResume
    \/ (~fibers.isCompleted /\ OpenSession) \/ SessionStep \/ SessionReceive
    \/ RaceResume \/ ClaimResume \/ FinallyResume
    \/ Settle \/ Finalize

SpecHandle == Init /\ [][NextHandle]_vars


\* Background runs over units that all fulfil: a caller issues start(),
\* stop() and promiseStart in any order and, once it has read promiseStart,
\* awaits the handle and calls nothing more.
NextAwait ==
    \/ (~awaiting /\ (Start \/ Stop \/ PromiseStart))
    \/ RaceResume \/ ClaimResume \/ FinallyResume \/ BackgroundResume
    \/ SettleFulfilled \/ Finalize

SpecAwait == InitSession /\ [][NextAwait]_vars /\ WF_vars(Scheduler)


\* the `for await` loop keeps running: it calls next() and takes the result
Stepping == SessionStep \/ SessionReceive

\* Runs over units that all fulfil, driven without interruption: a background
\* job that is never stopped, or a foreground session whose loop is never
\* left early; the concurrency level may be rewritten at any time.
NextDriven ==
    \/ SetConcurrency
    \/ Start \/ BackgroundResume
    \/ (~fibers.isCompleted /\ OpenSession) \/ SessionStep \/ SessionReceive
    \/ RaceResume \/ ClaimResume \/ FinallyResume
    \/ SettleFulfilled \/ Finalize

SpecDriven ==
    InitSession /\ [][NextDriven]_vars /\ WF_vars(Scheduler) /\ WF_vars(Stepping)


\* Engines used through the public session operations (open, step, close),
\* start() and stop() only, issued in any order; units fulfil or reject.
NextPublic ==
    \/ Start \/ Stop \/ BackgroundResume
    \/ OpenSession \/ SessionStep \/ SessionReceive \/ SessionBreak
    \/ RaceResume \/ ClaimResume \/ FinallyResume
    \/ Settle \/ Finalize

SpecPublic == Init /\ [][NextPublic]_vars


\* Runs that fail, by a unit's rejection under either protocol or by
\* throw(e), on engines whose _callbackReject may throw.
NextConflict ==
    \/ Start \/ BackgroundResume
    \/ (~fibers.isCompleted /\ OpenSession) \/ SessionStep \/ SessionReceive
    \/ Throw
    \/ RaceResume \/ ClaimResume \/ FinallyResume
    \/ Settle \/ Finalize

SpecConflict == InitConflict /\ [][NextConflict]_vars


\* Calls of Fibers.delay, abort() on the controllers passed to them, and the
\* passing of time; no engine takes part.
InitDelay ==
    /\ Construct({1}, {0})
    /\ fibers.b_errorHandler = "none"
    /\ hasDispose = TRUE
    /\ rejectThrows = FALSE

NextDelay == Delay \/ Abort \/ TimerFires

SpecDelay == InitDelay /\ [][NextDelay]_vars


\* a caller calls next() and, without awaiting the promise it got, tears
\* the engine down in the same stretch, by return(), throw(e) or
\* [Symbol.asyncDispose]()
StepThenTeardown ==
    /\ iterating
    /\ calls["fg"].pc = "idle"
    /\ \E op \in {"return", "throw", "asyncDispose"} :
          LET w == next(World, "fg")
          IN  Commit(CASE op = "return" -> resolveIfNotFailedAndCleanup(w)
                       [] op = "throw"  -> throw(w)
                       [] OTHER         -> cleanup(w))
    /\ UNCHANGED <<Env, iterating, peakConcurrency, queuedAtStop>>

\* Sessions over units that all fulfil, stepped by hand; the caller may tear
\* the engine down right after a call of next().  The microtask queue runs
\* every continuation that is ready, the spin-yield included, and every
\* started unit settles.
NextSpin ==
    \/ (~fibers.isCompleted /\ OpenSession) \/ SessionStep \/ SessionReceive
    \/ StepThenTeardown
    \/ RaceResume \/ SpinResume \/ ClaimResume \/ FinallyResume
    \/ SettleFulfilled \/ Finalize

SpecSpin == InitSession /\ [][NextSpin]_vars /\ WF_vars(Scheduler) /\ WF_vars(SpinResume)


\* Runs over the longest sources in which background jobs are started and
\* stopped and foreground sessions are opened, in any order; units fulfil
\* or reject.
NextHandover ==
    \/ Start \/ Stop \/ BackgroundResume
    \/ (~fibers.isCompleted /\ OpenSession) \/ SessionStep \/ SessionReceive
    \/ RaceResume \/ ClaimResume \/ FinallyResume
    \/ Settle \/ Finalize

SpecHandover == InitSession /\ [][NextHandover]_vars


\* the caller of an open session calls next() again while its previous
\* call has not returned
OverlapStep ==
    /\ iterating
    /\ calls["fg"].pc \in {"race", "claim"}
    /\ calls["fg2"].pc = "idle"
    /\ Commit(next(World, "fg2"))
    /\ UNCHANGED <<Env, iterating, peakConcurrency, queuedAtStop>>

\* the caller receives the result of its second call
OverlapReceive ==
    /\ calls["fg2"].pc = "ret"
    /\ Commit([World EXCEPT !.calls["fg2"] = IdleCall])
    /\ UNCHANGED <<Env, iterating, peakConcurrency, queuedAtStop>>

\* Sessions stepped by hand, in which the caller may have two calls of
\* next() in progress; units fulfil or reject.
NextOverlap ==
    \/ (~fibers.isCompleted /\ OpenSession) \/ SessionStep \/ SessionReceive
    \/ OverlapStep \/ OverlapReceive
    \/ RaceResume \/ SpinResume \/ ClaimResume \/ FinallyResume
    \/ Settle \/ Finalize

SpecOverlap == Init /\ [][NextOverlap]_vars


-----------------------------------------------------------------------------
(* Claims.                                                                 *)

\* units started and not yet settled
InFlight == {t \in Items : task[t] = "pending"}

SessionDone == calls["fg"].pc = "ret" /\ calls["fg"].result = "done"

\* the session's step has ended the run and is about to return done
SessionFinishing == calls["fg"].pc = "final"

\* C1: the number of units started and not yet settled never exceeds the
\* concurrency level, read as weakly as the claim allows: the largest level
\* that has been in effect so far (a lowered level cannot recall units).
C1_InFlightWithinConcurrency == Cardinality(InFlight) <= peakConcurrency

\* C2 as stated: in every reachable state the Running Pool holds at most
\* `concurrency` units, also right after the setter was called.
C2_PoolWithinCurrentLevel ==
    Cardinality(fibers.runningTaskPool) <= fibers.b_concurrency

\* C2 amended: in every reachable state the Running Pool holds at most as
\* many units as the largest concurrency level in effect so far.
C2_PoolWithinPeakLevel ==
    Cardinality(fibers.runningTaskPool) <= peakConcurrency

\* a full pool whose level was lowered afterwards
C2_Witness ==
    /\ Cardinality(fibers.runningTaskPool) = MaxConcurrency
    /\ fibers.b_concurrency < MaxConcurrency

\* C4: the Lifecycle Handle's resolve/reject functions are called at most
\* once over any sequence of operations, and the handle is settled exactly
\* when that call has been made.
C4_SettledAtMostOnce ==
    /\ settleCalls <= 1
    /\ (settleCalls = 1) <=> (fibers.fibersPromise # "pending")
    /\ fibers.isResolvedOrRejected <=> (fibers.fibersPromise # "pending")

\* throw() on a run that had already resolved: the second attempt was a no-op
C4_Witness ==
    /\ fibers.isFailed
    /\ fibers.fibersPromise = "resolved"
    /\ settleCalls = 1

C8_StartInSessionDoesNotThrow ==
    [][ (fibers.isGeneratorConsuming /\ Start) =>
            /\ thrown' = "none"
            /\ fibers'.activeBackgroundJob ]_vars


\* C3: in a run in which no unit fails, driven by one foreground session
\* until it reports done, every source item's factory was invoked exactly
\* once and every unit's result was returned by exactly one step.
C3_EveryItemOnce ==
    /\ \A t \in Items : started[t] <= 1 /\ delivered[t] <= 1
    /\ (SessionDone /\ rejected = {}) =>
           \A t \in 1..sourceLen : started[t] = 1 /\ delivered[t] = 1

\* the longest source, run with two units in flight, reported done
C3_Witness ==
    /\ SessionDone
    /\ rejected = {}
    /\ sourceLen = NumItems
    /\ peakConcurrency = MaxConcurrency
    /\ \A t \in Items : delivered[t] = 1

\* C6: opening a foreground session while a background job is present raises
\* 'Cannot iterate while generator is running in background', sets no flag
\* and changes nothing of the engine; the background run then still reaches
\* completed = true, failed = false with the Lifecycle Handle resolved.
C6_OpenRefusedDuringBackgroundRun ==
    /\ [][ (fibers.activeBackgroundJob /\ OpenSession) =>
               /\ thrown' = "CannotIterate"
               /\ ~fibers'.isGeneratorConsuming
               /\ ~iterating'
               /\ UNCHANGED <<fibers, generator, task, calls>> ]_vars
    /\ (thrown = "CannotIterate") ~>
           (fibers.isCompleted /\ ~fibers.isFailed /\ fibers.fibersPromise = "resolved")

\* a session was refused while the background run had units in flight
C6_Witness ==
    /\ thrown = "CannotIterate"
    /\ fibers.activeBackgroundJob
    /\ fibers.runningTaskPool # {}
    /\ ~fibers.isCompleted

\* C9: with a handler that returns 'skip', when the session reports done every
\* source item was started, every unit but the failed ones was delivered, no
\* failed unit was delivered, and the run ended completed, not failed, with
\* the Lifecycle Handle resolved.
C9_SkipDeliversAllOthers ==
    (fibers.b_errorHandler = "skip" /\ SessionDone) =>
        /\ \A t \in 1..sourceLen : started[t] = 1
        /\ \A t \in 1..sourceLen : t \notin rejected => delivered[t] = 1
        /\ \A t \in rejected : delivered[t] = 0
        /\ fibers.isCompleted /\ ~fibers.isFailed /\ fibers.fibersPromise = "resolved"

StopHandled == fibers.b_errorHandler = "stop" /\ handlerCalls >= 1

\* C10: with a handler that returns 'stop', once a failure has been handled
\* the step ends by returning done, the run is completed, not failed, with the
\* Lifecycle Handle resolved, and no item is pulled any more; if the
\* concurrency level was always 1, exactly the items before the failed item
\* were delivered and none after it was started.
C10_StopEndsRunGracefully ==
    /\ [](StopHandled =>
            /\ SessionFinishing \/ SessionDone \/ (calls["fg"].pc = "idle" /\ ~iterating)
            /\ fibers.isCompleted /\ ~fibers.isFailed
            /\ fibers.fibersPromise = "resolved"
            /\ peakConcurrency = 1 =>
                  \E k \in rejected : \A t \in Items :
                      /\ delivered[t] = IF t < k THEN 1 ELSE 0
                      /\ started[t] = IF t <= k THEN 1 ELSE 0)
    /\ [][StopHandled => (started' = started /\ generator' = generator)]_vars

\* the third of four items failed at concurrency 1 and the run was stopped
C10_Witness ==
    /\ StopHandled
    /\ SessionDone
    /\ peakConcurrency = 1
    /\ rejected = {3}
    /\ sourceLen = NumItems

DefaultPolicy == fibers.b_errorHandler \in {"none", "default"}

\* the call of next() made by f resumes from an await that throws a unit's
\* rejection
CatchesFailure(f) ==
    /\ \/ calls[f].pc = "race" /\ calls[f].winner \in rejected
       \/ calls[f].pc = "claim" /\ calls[f].activeTask \in rejected
    /\ RaceResume \/ ClaimResume
    /\ calls'[f] # calls[f]

\* C11: with no handler or a handler that returns 'default', the step that
\* meets a unit's failure, in a session or in a background job, sets failed
\* and completed, rejects the Lifecycle Handle and ends by throwing to its
\* caller; a background job that receives the error ends; and once the run
\* has failed no source item is pulled and no factory is invoked.
C11_DefaultPolicyFailsRun ==
    /\ [][ \A f \in Callers : (DefaultPolicy /\ CatchesFailure(f)) =>
               /\ fibers'.isFailed /\ fibers'.isCompleted
               /\ fibers'.fibersPromise = "rejected"
               /\ calls'[f].pc = "ret" /\ calls'[f].result = "throw"
               /\ started' = started ]_vars
    /\ [][ (calls["bg"].pc = "ret" /\ calls["bg"].result = "throw" /\ BackgroundResume) =>
               calls'["bg"].pc = "idle" /\ ~fibers'.activeBackgroundJob ]_vars
    /\ [][ (DefaultPolicy /\ fibers.isFailed) =>
               started' = started /\ generator' = generator ]_vars

\* a background job without handler met the failure of the first unit while
\* the second item was still in the source
C11_Witness ==
    /\ fibers.b_errorHandler = "none"
    /\ calls["bg"].pc = "ret" /\ calls["bg"].result = "throw"
    /\ fibers.isFailed /\ fibers.isCompleted /\ fibers.fibersPromise = "rejected"
    /\ rejected = {1}
    /\ sourceLen = ShortSource
    /\ started[ShortSource] = 0

\* a stopped background job has ended and left source items unpulled
StoppedMidway ==
    /\ ~fibers.activeBackgroundJob
    /\ ~fibers.isCompleted
    /\ \E t \in 1..sourceLen : started[t] = 1
    /\ \E t \in 1..sourceLen : started[t] = 0

\* C12: when a background run over non-failing units is stopped, the stopped
\* job is awaited and the engine is driven again with start(), the run
\* completes, and at completion every source item's factory has been invoked
\* exactly once; no factory is ever invoked twice.
C12_RestartCompletesEveryItemOnce ==
    /\ [](\A t \in Items : started[t] <= 1)
    /\ [](fibers.isCompleted => \A t \in 1..sourceLen : started[t] = 1)
    /\ <>fibers.isCompleted
    /\ StoppedMidway ~> fibers.isCompleted

\* the job was stopped after the first of four items, with the second in
\* flight at concurrency 2
C12_Witness ==
    /\ StoppedMidway
    /\ sourceLen = NumItems
    /\ fibers.runningTaskPool = {2}
    /\ delivered[1] = 1
    /\ started[3] = 0

\* stop() has returned during a background run whose job has not ended yet
Stopping == fibers.activeBackgroundJob /\ ~fibers.allowBackgroundJobRunning

\* C13: from the return of stop() during a background run until the next
\* start(), no factory is invoked, whatever the error handler and the order
\* in which units settle.
C13_NoPullAfterStop == [][ Stopping => started' = started ]_vars

\* the background loop is left: the promise of _runInBackground, which is
\* the handle start() and stop() returned, settles
JobExits == BackgroundResume /\ calls'["bg"].pc = "idle"

\* C14: when the handle stop() returned during a background run resolves,
\* none of the units that were in flight when stop() was called is still
\* unsettled.
C14_StopHandleWaitsForQueuedUnits ==
    [][ (JobExits /\ calls["bg"].result # "throw") =>
            \A t \in queuedAtStop : task[t] # "pending" ]_vars

\* a background job is present on a run that has neither completed nor failed
JobRunning ==
    /\ fibers.activeBackgroundJob
    /\ ~fibers.isCompleted
    /\ ~fibers.isFailed

\* C15: every start() called while a background job is running returns the
\* handle of that job, raises nothing, starts no call of next(), pulls no
\* item and changes no field of the engine.
C15_StartIsIdempotentWhileRunning ==
    [][ (JobRunning /\ Start) =>
            /\ returned' = "activeJob"
            /\ thrown' = "none"
            /\ UNCHANGED <<fibers, generator, task, calls, started>> ]_vars

\* start() returned the handle of a job that is allowed to run and has
\* units in flight
C15_Witness ==
    /\ returned = "activeJob"
    /\ JobRunning
    /\ fibers.allowBackgroundJobRunning
    /\ fibers.runningTaskPool # {}
    /\ calls["bg"].pc = "race"

\* the run has completed through one of the protocols: the Lifecycle Handle
\* is settled and no background job is registered any more
CompletedRun ==
    /\ fibers.isCompleted
    /\ fibers.fibersPromise # "pending"
    /\ ~fibers.activeBackgroundJob

\* C16: on a completed run, start() outside a session, opening a session and
\* every further step raise nothing, invoke no factory, pull nothing from
\* the source, return a resolved handle or done, and leave completed, failed
\* and the outcome of the Lifecycle Handle as they were.
C16_CompletedEngineIsInert ==
    [][ (/\ CompletedRun
         /\ \/ ~fibers.isGeneratorConsuming /\ Start
            \/ OpenSession
            \/ SessionStep) =>
            /\ thrown' = "none"
            /\ started' = started
            /\ generator' = generator
            /\ fibers'.isCompleted
            /\ fibers'.isFailed = fibers.isFailed
            /\ fibers'.fibersPromise = fibers.fibersPromise
            /\ SessionStep => calls'["fg"].pc = "final" ]_vars

\* unit a is held by one of the pools
Tracked(a) == a \in fibers.runningTaskPool \/ InSeq(fibers.finishedTaskPool, a)

\* unit a settled, and it settled before unit b did
SettledBefore(a, b) ==
    \E i, j \in 1..Len(settleOrder) :
        i < j /\ settleOrder[i] = a /\ settleOrder[j] = b

\* C17: results are handed back in completion order: when a step returns the
\* result of unit b, no unit that fulfilled before b settled is still held
\* by a pool waiting for a later step.
C17_ResultsInCompletionOrder ==
    [][ \A b \in Items : delivered'[b] > delivered[b] =>
            \A a \in Items \ {b} :
                ~(Tracked(a) /\ a \notin rejected /\ SettledBefore(a, b)) ]_vars

\* units submitted in the order 1, 2, 3 settled in the order 3, 2 and were
\* returned while unit 1 was still in flight
C17_Witness ==
    /\ settleOrder = <<3, 2>>
    /\ rejected = {}
    /\ delivered[3] = 1 /\ delivered[2] = 1 /\ delivered[1] = 0
    /\ task[1] = "pending"

\* C18: a write of v <= 0 to the concurrency level raises the FiberError
\* whose message is built from v, a different message for each v, and
\* leaves the stored level as it was; a construction with v <= 0 raises the
\* same error and yields no engine; a write of v > 0 raises nothing and is
\* what the getter returns next.
C18_ConcurrencyIsValidated ==
    /\ [](\A v, u \in WriteValues :
              v # u => ConcurrencyMessage(v) # ConcurrencyMessage(u))
    /\ [](IF peakConcurrency = 0
          THEN \E v \in WriteValues : v <= 0 /\ thrown = ConcurrencyMessage(v)
          ELSE concurrency(World) > 0)
    /\ [][ \A v \in WriteValues : WriteConcurrency(v) =>
               IF v <= 0
               THEN /\ thrown' = ConcurrencyMessage(v)
                    /\ fibers' = fibers
               ELSE /\ thrown' = "none"
                    /\ fibers'.b_concurrency = v ]_vars

\* a write of 0 was refused on an engine whose level is MaxConcurrency
C18_Witness ==
    /\ thrown = ConcurrencyMessage(0)
    /\ peakConcurrency > 0
    /\ fibers.b_concurrency = MaxConcurrency

\* the state _cleanup leaves
TornDown(f) ==
    /\ f.isCompleted
    /\ ~f.isGeneratorConsuming
    /\ f.runningTaskPool = {}
    /\ f.finishedTaskPool = <<>>

\* a step of the session finds the run finished: it will return done
Exhausted ==
    /\ calls["fg"].pc # "final"
    /\ calls'["fg"].pc = "final"

\* C19 as stated: each of the three ways a session ends (a step returning
\* done, return(), throw()) resolves the Lifecycle Handle when the run has
\* not failed before, and tears the engine down.
C19_EveryEndSettlesWithSuccess ==
    [][ ((Exhausted \/ Return \/ SessionBreak \/ Throw) /\ ~fibers.isFailed) =>
            /\ fibers'.fibersPromise = "resolved"
            /\ TornDown(fibers') ]_vars

\* C19 amended: a step returning done and return() resolve the Lifecycle
\* Handle unless it is settled already, and do so whenever the run has not
\* failed; throw() marks the run failed and rejects the handle unless it is
\* settled already; all three tear the engine down.
C19_EndSettlesAndTearsDown ==
    [][ /\ (Exhausted \/ Return \/ SessionBreak) =>
               /\ TornDown(fibers')
               /\ fibers'.isFailed = fibers.isFailed
               /\ fibers'.fibersPromise =
                      SettlePromise(fibers.fibersPromise, "resolved")
               /\ ~fibers.isFailed => fibers'.fibersPromise = "resolved"
        /\ Throw =>
               /\ TornDown(fibers')
               /\ fibers'.isFailed
               /\ fibers'.fibersPromise =
                      SettlePromise(fibers.fibersPromise, "rejected") ]_vars

\* throw() ended a session that had a unit in flight and no failure
C19_Witness ==
    /\ iterating
    /\ TornDown(fibers)
    /\ fibers.isFailed /\ fibers.fibersPromise = "rejected"
    /\ rejected = {}
    /\ task[1] = "pending"

\* C20: completed and failed are monotonic: no operation and no
\* continuation takes either of them from true back to false.
C20_CompletedAndFailedAreMonotonic ==
    [][ /\ fibers.isCompleted => fibers'.isCompleted
        /\ fibers.isFailed => fibers'.isFailed ]_vars

\* a session was opened again, and a unit started, on an engine that had
\* failed and been torn down before
C20_Witness ==
    /\ fibers.isCompleted
    /\ fibers.isFailed
    /\ fibers.isGeneratorConsuming
    /\ fibers.runningTaskPool # {}

\* the flag the getter `started` reads
Started == fibers.activeBackgroundJob

\* C21: in every state between two operations, completed implies not
\* started, and failed implies completed.
C21_FlagsAreConsistent ==
    /\ fibers.isCompleted => ~Started
    /\ fibers.isFailed => fibers.isCompleted

\* C22: once completed is true the Running Pool and the Finished Pool are
\* empty, in that state and in every later one, also after the units that
\* were in flight at teardown have settled.
C22_PoolsEmptyOnceCompleted ==
    fibers.isCompleted =>
        /\ fibers.runningTaskPool = {}
        /\ fibers.finishedTaskPool = <<>>

\* C23: reading `promise` returns the Lifecycle Handle and changes nothing of
\* the engine: it starts no job and no call of next() and pulls no item.
\* Reading `promiseStart` changes the engine exactly as start() does, raises
\* what start() raises, and otherwise returns the Lifecycle Handle, never the
\* handle of the background job.
C23_PromiseIsPassiveAndPromiseStartStarts ==
    [][ /\ ReadPromise =>
               /\ returned' = "fibersPromise"
               /\ thrown' = "none"
               /\ UNCHANGED <<fibers, generator, task, calls, started, delivered>>
        /\ PromiseStart =>
               /\ fibers' = start(World).fibers
               /\ generator' = start(World).generator
               /\ task' = start(World).task
               /\ calls' = start(World).calls
               /\ started' = start(World).started
               /\ thrown' = start(World).thrown
               /\ returned' = IF thrown' = "none" THEN "fibersPromise" ELSE "none" ]_vars

\* `promiseStart` handed out the Lifecycle Handle, still pending, and left a
\* background job with the first unit in flight
C23_Witness ==
    /\ returned = "fibersPromise"
    /\ fibers.fibersPromise = "pending"
    /\ fibers.activeBackgroundJob /\ fibers.allowBackgroundJobRunning
    /\ calls["bg"].pc = "race"
    /\ task[1] = "pending"

\* C24: over a finite source whose units all fulfil, the handle obtained from
\* promiseStart with no session open eventually settles, whatever start()
\* and stop() calls came before, also when promiseStart directly follows
\* stop().
C24_PromiseStartHandleSettles == awaiting ~> (fibers.fibersPromise # "pending")

\* C25: over a finite source whose units all fulfil, a run that keeps being
\* driven, by a background job that is never stopped or by a session that is
\* stepped until done, eventually is completed and not failed with the
\* Lifecycle Handle resolved, at every concurrency level and in every settle
\* order.
C25_DrivenRunCompletes ==
    (fibers.activeBackgroundJob \/ iterating) ~>
        (fibers.isCompleted /\ ~fibers.isFailed /\ fibers.fibersPromise = "resolved")

\* a background job completed the longest source at concurrency 2 with the
\* units settling out of submission order
C25_Witness ==
    /\ calls["bg"].pc = "ret" /\ calls["bg"].result = "done"
    /\ fibers.isCompleted /\ fibers.fibersPromise = "resolved"
    /\ sourceLen = NumItems
    /\ Len(settleOrder) = NumItems
    /\ settleOrder[1] = 2
    /\ \A t \in Items : delivered[t] = 1

\* C26: stop() does not settle the Lifecycle Handle, and when the job that
\* stop() interrupted exits with source items still unpulled and no unit
\* failed, started, completed and failed are false and the Lifecycle Handle
\* is pending: neither of its settle functions was ever called.
C26_StopLeavesHandleUnsettled ==
    [][ /\ Stop => /\ fibers'.fibersPromise = fibers.fibersPromise
                   /\ settleCalls' = settleCalls
        /\ (JobExits /\ Stopping /\ generator <= sourceLen /\ rejected = {}) =>
               /\ ~Started'
               /\ ~fibers'.isCompleted
               /\ ~fibers'.isFailed
               /\ fibers'.fibersPromise = "pending"
               /\ settleCalls' = 0 ]_vars

\* the stopped job has exited after delivering the first unit, with the
\* second item unpulled and nothing settled
C26_Witness ==
    /\ StoppedMidway
    /\ calls["bg"].pc = "idle"
    /\ rejected = {}
    /\ delivered[1] = 1
    /\ generator = 2 /\ sourceLen = ShortSource
    /\ fibers.fibersPromise = "pending"

\* the call of next() made by f has not returned yet: it is suspended at one
\* of its awaits
InProgress(f) == calls[f].pc \in {"race", "spin", "claim", "final"}

\* C27: when only session open, step, close, start() and stop() are used, in
\* any order, at most one call of next() is in progress at any time.
C27_OneConsumerAtATime == ~(InProgress("fg") /\ InProgress("bg"))

\* what _cleanup assigns: the four flags and the two pools
CleanedUp(f) ==
    /\ f.isCompleted
    /\ ~f.isGeneratorConsuming
    /\ ~f.allowBackgroundJobRunning
    /\ ~f.activeBackgroundJob
    /\ f.runningTaskPool = {}
    /\ f.finishedTaskPool = <<>>

\* C28: teardown is idempotent.  Applied twice it gives what it gives applied
\* once; and on an engine that was torn down before, [Symbol.asyncDispose]()
\* always, and return() or the close of a session once the Lifecycle Handle
\* is settled, raise nothing, leave the flags and pools as the first
\* teardown left them and leave failed and the handle's outcome unchanged.
C28_TeardownIsIdempotent ==
    /\ [](cleanup(cleanup(World)) = cleanup(World))
    /\ [][ (/\ fibers.isCompleted
            /\ \/ AsyncDispose
               \/ fibers.fibersPromise # "pending" /\ (Return \/ SessionBreak)) =>
               /\ thrown' = "none"
               /\ CleanedUp(fibers')
               /\ fibers'.isFailed = fibers.isFailed
               /\ fibers'.fibersPromise = fibers.fibersPromise
               /\ fibers'.isResolvedOrRejected = fibers.isResolvedOrRejected
               /\ generator' = IF hasDispose THEN sourceLen + 1 ELSE generator ]_vars

\* the background job's last step tore the engine down, a session was opened
\* on the completed engine, and a second teardown closed it again
C28_Witness ==
    /\ calls["bg"].pc = "final"
    /\ iterating
    /\ calls["fg"].pc = "idle"
    /\ CleanedUp(fibers)
    /\ fibers.fibersPromise = "resolved"

C30_PreCancelledDelayRejectsAtOnce ==
    /\ [][ \A d \in DelayIds :
              (/\ Delay
               /\ delays[d].promise = "uncalled" /\ delays'[d].promise # "uncalled"
               /\ delays'[d].token # 0 /\ aborted[delays'[d].token]) =>
                  /\ delays'[d].promise = "rejected"
                  /\ delays'[d].error.name = "AbortError"
                  /\ delays'[d].cancelledAtCall ]_vars
    /\ [](\A d \in DelayIds : delays[d].cancelledAtCall =>
              /\ delays[d].promise = "rejected"
              /\ delays[d].error.name = "AbortError"
              /\ ~delays[d].timer /\ delays[d].timersSet = 0
              /\ ~delays[d].listener /\ delays[d].listenersAdded = 0)

\* a controller cancelled the first delay mid-wait, and the second delay,
\* called with the same controller afterwards, was rejected at the call
C30_Witness ==
    /\ delays[1].promise = "rejected" /\ delays[1].timersSet = 1
    /\ delays[2].cancelledAtCall
    /\ delays[2].token = delays[1].token
    /\ delays[2].promise = "rejected"
    /\ delays[2].timersSet = 0


\* the promise of the call d of Fibers.delay is settled
DelaySettled(d) == delays[d].promise \in {"resolved", "rejected"}

\* C31: a delay settles once, by the first of timer expiry (resolve) and
\* cancellation of its token (reject with AbortError).  While it waits its
\* timer is pending; once it has settled no timer is pending and no abort
\* listener is registered, at most one timer was ever scheduled for it, and
\* neither event changes anything of it any more.
C31_DelaySettlesOnce ==
    /\ [](\A d \in DelayIds :
            /\ delays[d].promise = "pending" => delays[d].timer
            /\ DelaySettled(d) => ~delays[d].timer /\ ~delays[d].listener
            /\ delays[d].timersSet <= 1 /\ delays[d].listenersAdded <= 1)
    /\ [][ \A d \in DelayIds :
              /\ DelaySettled(d) => delays'[d] = delays[d]
              /\ (delays[d].promise = "pending" /\ delays'[d] # delays[d]) =>
                     IF TimerFires /\ aborted' = aborted
                     THEN delays'[d].promise = "resolved" /\ delays'[d].error = "none"
                     ELSE /\ delays'[d].promise = "rejected"
                          /\ delays'[d].error.name = "AbortError"
                          /\ aborted'[delays[d].token] ]_vars

\* the first delay was resolved by its timer and its controller was aborted
\* afterwards; the second was rejected by its controller while its timer ran
C31_Witness ==
    /\ delays[1].promise = "resolved" /\ delays[1].token # 0
    /\ aborted[delays[1].token]
    /\ delays[2].promise = "rejected" /\ delays[2].timersSet = 1
    /\ ~delays[2].cancelledAtCall

\* the unit whose rejection the call of next() made by f is about to catch
FailedUnit(f) == IF calls[f].pc = "race" THEN calls[f].winner ELSE calls[f].activeTask

\* C32: when a step has handled the failure of a unit, under 'stop', 'skip'
\* or the default policy, and its finally block has run, the failed unit is
\* in neither the Running Pool nor the Finished Pool.
C32_FailedUnitLeavesPools ==
    [][ \A f \in Callers : CatchesFailure(f) =>
            LET u == FailedUnit(f)
            IN  /\ u \notin fibers'.runningTaskPool
                /\ ~InSeq(fibers'.finishedTaskPool, u) ]_vars

\* unit t is claimed in this step: its result is returned, or its own
\* failure is caught
Claimed(t) ==
    \/ delivered'[t] > delivered[t]
    \/ \E f \in Callers : CatchesFailure(f) /\ FailedUnit(f) = t

\* C33: a started unit stays in the Running Pool until its own result is
\* claimed (returned by a step, or its own failure handled) or the engine is
\* torn down: no step removes from the Running Pool a unit other than the
\* one it claims, and never one that is still unsettled.
C33_UnitTrackedUntilClaimed ==
    [][ \A t \in fibers.runningTaskPool :
            t \notin fibers'.runningTaskPool =>
                \/ TornDown(fibers')
                \/ Claimed(t) /\ task[t] # "pending" ]_vars

\* a unit the call of next() made by f raced on has settled: the call is
\* about to resume from the race, or is in the spin-yield
Decided(f) ==
    \/ calls[f].pc = "race" /\ calls[f].winner # 0
    \/ calls[f].pc = "spin"

\* C34: a step that found the Running Pool non-empty returns once a unit it
\* tracks has settled: the spin-yield that waits for the Finished Pool
\* terminates, also when the engine is torn down while the step is waiting.
C34_SpinYieldTerminates ==
    \A f \in Callers : Decided(f) ~> (calls[f].pc = "ret")

Max(S) == CHOOSE x \in S : \A y \in S : x >= y

\* number of units the Running Pool holds
PoolSize == Cardinality(fibers.runningTaskPool)

\* number of items the work source has still to yield
Remaining == sourceLen + 1 - generator

\* what a write of the concurrency level leaves alone: every field but the
\* stored level, the source, the units and the calls in progress
SetterFrame ==
    /\ fibers' = [fibers EXCEPT !.b_concurrency = fibers'.b_concurrency]
    /\ UNCHANGED <<generator, task, calls, started, delivered, microtasks>>

\* C35 as stated: a write of the concurrency level changes only the stored
\* level, and the refill of the next step then starts units until the
\* Running Pool holds min(level, pool size + remaining source items) units.
C35_NextRefillReachesNewLevel ==
    [][ /\ SetConcurrency => SetterFrame
        /\ SessionStep =>
               Cardinality(fibers'.runningTaskPool) =
                   Min({fibers.b_concurrency, PoolSize + Remaining}) ]_vars

\* C35 amended: a write of the concurrency level changes only the stored
\* level, and the refill of the next step starts the next source items, one
\* by one, only while the Running Pool holds fewer units than the level:
\* afterwards the pool holds max(pool size, min(level, pool size + remaining
\* source items)) units; a level lowered below the pool size starts no unit
\* and removes none.
C35_SetterAffectsOnlyNextRefill ==
    [][ /\ SetConcurrency => SetterFrame
        /\ SessionStep =>
               /\ Cardinality(fibers'.runningTaskPool) =
                      Max({PoolSize, Min({fibers.b_concurrency, PoolSize + Remaining})})
               /\ fibers.runningTaskPool \subseteq fibers'.runningTaskPool \/ PoolSize = 0
               /\ generator' - generator = Cardinality(fibers'.runningTaskPool) - PoolSize
               /\ \A t \in Items :
                      started'[t] = IF generator <= t /\ t < generator'
                                    THEN started[t] + 1 ELSE started[t] ]_vars

\* the level was lowered to 1 while two units were tracked, and the step in
\* progress started none and removed none
C35_Witness ==
    /\ fibers.b_concurrency = 1
    /\ PoolSize = 2
    /\ calls["fg"].pc = "race" /\ calls["fg"].activeTask = 0
    /\ delivered[1] = 1
    /\ rejected = {}

\* no background job is in progress: none was started, or the promise of
\* the last one, which start() and stop() handed out, has resolved
JobEnded == calls["bg"].pc = "idle"

\* C36: once a stopped background job has ended (the handle stop() returned
\* has resolved), opening a session raises nothing; a unit that is still
\* tracked has not been delivered yet; and when the session reports done in
\* a run without failure, every source item was started exactly once and
\* every unit's result was returned by exactly one step.
C36_SessionTakesOverStoppedRun ==
    /\ [](JobEnded => ~Started)
    /\ [][ (JobEnded /\ OpenSession) =>
              /\ thrown' = "none"
              /\ fibers'.isGeneratorConsuming
              /\ UNCHANGED <<generator, task, started, delivered>>
              /\ fibers'.runningTaskPool = fibers.runningTaskPool
              /\ fibers'.finishedTaskPool = fibers.finishedTaskPool ]_vars
    /\ [](\A t \in Items :
             /\ started[t] <= 1 /\ delivered[t] <= 1
             /\ (Tracked(t) /\ rejected = {}) => delivered[t] = 0)
    /\ []((SessionDone /\ rejected = {}) =>
             \A t \in 1..sourceLen : started[t] = 1 /\ delivered[t] = 1)

\* a session was opened after a background job at concurrency 2 had been
\* stopped and had ended, with unit 2 still tracked and items unpulled
C36_Witness ==
    /\ returned = "this" /\ iterating
    /\ JobEnded
    /\ rejected = {}
    /\ delivered[1] = 1
    /\ fibers.runningTaskPool = {2}
    /\ generator = 3 /\ sourceLen = NumItems

\* C37: in every reachable state, completed implies that the Lifecycle
\* Handle has been settled: no public operation tears the engine down and
\* leaves the handle pending.
C37_CompletedImpliesSettled ==
    fibers.isCompleted => fibers.fibersPromise # "pending"

\* C38: in every reachable state, failed is true if and only if the
\* Lifecycle Handle has been rejected: the handle is never resolved on an
\* engine that reports failed, also when throw() is called on an engine
\* whose run has completed successfully.
C38_FailedIffRejected ==
    fibers.isFailed <=> (fibers.fibersPromise = "rejected")

\* C39: no unit's result is returned by two steps, also when a second call
\* of next() is issued before the first has returned.
C39_NoResultReturnedTwice == \A t \in Items : delivered[t] <= 1

=============================================================================
